---- MODULE Spec2Model ----
(***************************************************************************)
(* Model of core/image_search/image_search.py: the size guard, the         *)
(* single-match search, the multi-match search with suppression, and the   *)
(* two polling wrappers image_find and image_vanish.                       *)
(*                                                                         *)
(* Scores are correlation scores in hundredths (0.80 is 80).  An optional  *)
(* argument (region, timeout) is a sequence of length at most one: << >>   *)
(* is Python's None, <<v>> is the value v.                                 *)
(***************************************************************************)
EXTENDS Integers, Sequences, FiniteSets, TLC

VARIABLES op, pc, pattern, region, timeout, threshold,
          now, start_time, end_time, pattern_found,
          res, surface, final_matches, calls, captures, guards, result

vars == <<op, pc, pattern, region, timeout, threshold,
          now, start_time, end_time, pattern_found,
          res, surface, final_matches, calls, captures, guards, result>>

----------------------------------------------------------------------------
(* Bounds of the model. *)

MaxOrigin == 1
MaxRegionW == 3
MaxRegionH == 2
MaxPatW == 2
MaxPatH == 2
MaxTimeout == 2
MaxTick == 1
MaxPolls == 2
MaxMatches == 3
AutoWaitTimeout == 2

(* Program constants. *)

DefaultThreshold == 50
Suppressed == -10000

Scores == {40, 60, 80}
Similarities == {80, 99}

----------------------------------------------------------------------------
(* Values. *)

Location(x, y) == [x |-> x, y |-> y]

None == << >>
Some(v) == <<v>>

Rectangle(x, y, w, h) == [x |-> x, y |-> y, width |-> w, height |-> h]

Pattern(w, h, s) == [width |-> w, height |-> h, similarity |-> s]

Patterns == {Pattern(w, h, s) : w \in 1..MaxPatW, h \in 1..MaxPatH, s \in Similarities}

Regions ==
    {None} \cup
    {Some(Rectangle(x, y, w, h)) :
        x \in (-MaxOrigin)..MaxOrigin, y \in (-MaxOrigin)..MaxOrigin,
        w \in 1..MaxRegionW, h \in 1..MaxRegionH}

Timeouts == {None} \cup {Some(t) : t \in 0..MaxTimeout}

(* The overlap thresholds match_template_multiple is called with: the
   default, and one that equals a score. *)
Thresholds == {DefaultThreshold, 60}

(* What a call hands back: a return value or a raised exception. *)
Pending == [kind |-> "pending", x |-> 0, y |-> 0, exc |-> ""]
RetNone == [kind |-> "None", x |-> 0, y |-> 0, exc |-> ""]
RetBool(b) == [kind |-> IF b THEN "True" ELSE "False", x |-> 0, y |-> 0, exc |-> ""]
RetLoc(p) == [kind |-> "Location", x |-> p.x, y |-> p.y, exc |-> ""]
RetList == [kind |-> "list", x |-> 0, y |-> 0, exc |-> ""]
Raise(e) == [kind |-> "raise", x |-> 0, y |-> 0, exc |-> e]

NoSurface == [y \in {} |-> 0]

----------------------------------------------------------------------------
(* The capture and the correlation engine (collaborators of the module). *)

(* The screen is one pixel wider than the widest region. *)
ScreenW == MaxRegionW + 1
ScreenH == MaxRegionH

(* ScreenshotImage(region=region): the size of the captured image. *)
CaptureSize(r) ==
    IF r = None THEN [width |-> ScreenW, height |-> ScreenH]
    ELSE [width |-> r[1].width, height |-> r[1].height]

(* cv2.matchTemplate rejects a needle larger than the haystack. *)
NeedleFits(p, r) ==
    p.width <= CaptureSize(r).width /\ p.height <= CaptureSize(r).height

(* The score surfaces cv2.matchTemplate can produce: one score for every
   placement of the needle inside the haystack, indexed res[y][x]. *)
Surfaces(p, r) ==
    [0..(CaptureSize(r).height - p.height) ->
        [0..(CaptureSize(r).width - p.width) -> Scores]]

(* One search's capture and correlation: the capture raises ScreenshotError,
   or it succeeds and the correlation yields a surface (none when the needle
   does not fit, where cv2.matchTemplate raises). *)
Shots(p, r) ==
    {[failed |-> TRUE, res |-> NoSurface]} \cup
    IF NeedleFits(p, r)
    THEN {[failed |-> FALSE, res |-> s] : s \in Surfaces(p, r)}
    ELSE {[failed |-> FALSE, res |-> NoSurface]}

SurfH(s) == Cardinality(DOMAIN s)
SurfW(s) == Cardinality(DOMAIN s[0])

Cells(s) == {c \in (0..(SurfW(s) - 1)) \X (0..(SurfH(s) - 1)) : TRUE}

SetMax(S) == CHOOSE m \in S : \A n \in S : n <= m
SetMin(S) == CHOOSE m \in S : \A n \in S : m <= n

(* cv2.minMaxLoc: the global maximum and the first cell, in row-major order,
   that holds it. *)
minMaxLoc(s) ==
    LET max_val == SetMax({s[c[2]][c[1]] : c \in Cells(s)})
        at == {c \in Cells(s) : s[c[2]][c[1]] = max_val}
        row == SetMin({c[2] : c \in at})
        col == SetMin({c[1] : c \in {d \in at : d[2] = row}})
    IN [max_val |-> max_val, x |-> col, y |-> row]

----------------------------------------------------------------------------
(* is_pattern_size_correct: region.width of None raises AttributeError. *)

(* The guard without its height test. *)
is_pattern_size_correct_width_only(p, r) ==
    IF r = None THEN Raise("AttributeError")
    ELSE RetBool(~(p.width > r[1].width))

is_pattern_size_correct(p, r) ==
    IF r = None THEN Raise("AttributeError")
    ELSE RetBool(~(p.width > r[1].width) /\ ~(p.height > r[1].height))

(* match_template without its except clause: ScreenshotError escapes. *)
match_template_uncaught(shot, p, r) ==
    IF shot.failed THEN Raise("ScreenshotError")
    ELSE IF ~NeedleFits(p, r) THEN Raise("cv2.error")
    ELSE
        LET mm == minMaxLoc(shot.res)
            position == IF mm.max_val < p.similarity
                        THEN Location(-1, -1)
                        ELSE Location(mm.x, mm.y)
        IN IF position.x = -1 \/ position.y = -1 THEN RetLoc(position)
           ELSE IF r # None
                THEN RetLoc(Location(position.x + r[1].x, position.y + r[1].y))
                ELSE RetLoc(position)

(* match_template that returns the capture-local location untranslated. *)
match_template_untranslated(shot, p, r) ==
    IF shot.failed THEN RetLoc(Location(-1, -1))
    ELSE IF ~NeedleFits(p, r) THEN Raise("cv2.error")
    ELSE
        LET mm == minMaxLoc(shot.res)
        IN IF mm.max_val < p.similarity
           THEN RetLoc(Location(-1, -1))
           ELSE RetLoc(Location(mm.x, mm.y))

(* match_template whose sentinel test also catches the coordinate 0. *)
match_template_zero_is_sentinel(shot, p, r) ==
    IF shot.failed THEN RetLoc(Location(-1, -1))
    ELSE IF ~NeedleFits(p, r) THEN Raise("cv2.error")
    ELSE
        LET mm == minMaxLoc(shot.res)
            position == IF mm.max_val < p.similarity
                        THEN Location(-1, -1)
                        ELSE Location(mm.x, mm.y)
        IN IF position.x <= 0 \/ position.y <= 0 THEN RetLoc(position)
           ELSE IF r # None
                THEN RetLoc(Location(position.x + r[1].x, position.y + r[1].y))
                ELSE RetLoc(position)

(* match_template on one capture. *)
match_template(shot, p, r) ==
    IF shot.failed THEN RetLoc(Location(-1, -1))
    ELSE IF ~NeedleFits(p, r) THEN Raise("cv2.error")
    ELSE
        LET mm == minMaxLoc(shot.res)
            position == IF mm.max_val < p.similarity
                        THEN Location(-1, -1)
                        ELSE Location(mm.x, mm.y)
        IN IF position.x = -1 \/ position.y = -1 THEN RetLoc(position)
           ELSE IF r # None
                THEN RetLoc(Location(position.x + r[1].x, position.y + r[1].y))
                ELSE RetLoc(position)


(* int(a / 2) for an integer a: Python's int() truncates towards zero. *)
TruncHalf(a) == IF a >= 0 THEN a \div 2 ELSE -((-a) \div 2)

(* numpy indexing of an axis of length n: -n..-1 wrap around, anything else
   outside 0..n-1 raises IndexError. *)
IndexOk(i, n) == -n <= i /\ i < n
Wrap(i, n) == IF i < 0 THEN i + n ELSE i

(* The cells the suppression loops of match_template_multiple write: x in
   range(int(sx - width / 2), int(sx + width / 2)), y likewise, each write
   res[y][x] skipped when it raises IndexError. *)
SuppressedCells(s, sx, sy, width, height) ==
    {<<Wrap(x, SurfW(s)), Wrap(y, SurfH(s))>> :
        <<x, y>> \in
            {c \in (TruncHalf(2 * sx - width)..(TruncHalf(2 * sx + width) - 1))
                    \X (TruncHalf(2 * sy - height)..(TruncHalf(2 * sy + height) - 1)) :
                IndexOk(c[1], SurfW(s)) /\ IndexOk(c[2], SurfH(s))}}

Suppress(s, sx, sy, width, height) ==
    [y \in DOMAIN s |->
        [x \in DOMAIN s[y] |->
            IF <<x, y>> \in SuppressedCells(s, sx, sy, width, height)
            THEN Suppressed
            ELSE s[y][x]]]

(* The loop test with the similarity included: precision >= max_val. *)
KeepsMatching_inclusive(s, p, th) ==
    p.similarity >= minMaxLoc(s).max_val /\ minMaxLoc(s).max_val > th

(* The loop test of match_template_multiple: precision > max_val > threshold. *)
KeepsMatching(s, p, th) ==
    p.similarity > minMaxLoc(s).max_val /\ minMaxLoc(s).max_val > th

(* top_left taken from min_loc, the branch of the squared-difference
   methods: the first cell, in row-major order, that holds the minimum. *)
TopLeft_min_loc(s) ==
    LET min_val == SetMin({s[c[2]][c[1]] : c \in Cells(s)})
        at == {c \in Cells(s) : s[c[2]][c[1]] = min_val}
        row == SetMin({c[2] : c \in at})
        col == SetMin({c[1] : c \in {d \in at : d[2] = row}})
    IN [x |-> col, y |-> row]

(* top_left of match_template_multiple: FIND_METHOD is TM_CCOEFF_NORMED, so
   the best match is the maximum's location. *)
TopLeft(s) == [x |-> minMaxLoc(s).x, y |-> minMaxLoc(s).y]

(* new_match_point moved to screen coordinates, as match_template does. *)
new_match_point_absolute(top_left, r) ==
    IF r = None THEN Location(top_left.x, top_left.y)
    ELSE Location(top_left.x + r[1].x, top_left.y + r[1].y)

(* The Location match_template_multiple records: top_left as found. *)
new_match_point(top_left, r) == Location(top_left.x, top_left.y)

(* A capture taken once and kept for the later searches. *)
ScreenshotImage_cached(taken) == IF taken = 0 THEN 1 ELSE taken

(* Every search constructs its own ScreenshotImage: the number of the
   capture a search works on, given the captures taken so far. *)
ScreenshotImage(taken) == taken + 1

(* The loop without its reading of the clock. *)
LoopTime_stale(start, clock) == start

(* start_time = datetime.datetime.now() at the end of an iteration. *)
LoopTime(start, clock) == clock

(* The timeout the wrapper polls with. *)
ImageFindTimeout(t) == IF t = None THEN AutoWaitTimeout ELSE t[1]

(* The found test of image_find and the still-present test of image_vanish. *)
FindFound(pos) == pos.x # -1
VanishPresent(pos) == (pos.x # -1) /\ (pos.y # -1)

(* What image_vanish returns after its loop. *)
VanishResult(found) == IF found THEN RetNone ELSE RetBool(TRUE)

----------------------------------------------------------------------------
Init ==
    /\ op = "none"
    /\ pc = "idle"
    /\ pattern = Pattern(1, 1, 80)
    /\ region = None
    /\ timeout = None
    /\ threshold = DefaultThreshold
    /\ now = 0
    /\ start_time = 0
    /\ end_time = 0
    /\ pattern_found = TRUE
    /\ res = NoSurface
    /\ surface = NoSurface
    /\ final_matches = << >>
    /\ calls = << >>
    /\ captures = 0
    /\ guards = 0
    /\ result = Pending

(* A direct call of the guard. *)
CallGuard ==
    /\ pc = "idle"
    /\ \E p \in Patterns, r \in Regions :
        /\ pattern' = p
        /\ region' = r
        /\ result' = is_pattern_size_correct(p, r)
    /\ op' = "is_pattern_size_correct"
    /\ pc' = "done"
    /\ guards' = 1
    /\ UNCHANGED <<timeout, threshold, now, start_time, end_time, pattern_found,
                   res, surface, final_matches, calls, captures>>

(* A direct call of match_template. *)
CallMatchTemplate ==
    /\ pc = "idle"
    /\ \E p \in Patterns, r \in Regions :
        \E shot \in Shots(p, r) :
            /\ pattern' = p
            /\ region' = r
            /\ result' = match_template(shot, p, r)
            /\ calls' = <<[ret |-> match_template(shot, p, r), failed |-> shot.failed,
                            image |-> ScreenshotImage(captures)]>>
            /\ res' = shot.res
    /\ captures' = ScreenshotImage(captures)
    /\ op' = "match_template"
    /\ pc' = "done"
    /\ UNCHANGED <<timeout, threshold, now, start_time, end_time, pattern_found,
                   surface, final_matches, guards>>

(* match_template_multiple up to its loop: the capture and the correlation. *)
CallMatchTemplateMultiple ==
    /\ pc = "idle"
    /\ \E p \in Patterns, r \in Regions, th \in Thresholds :
        \E shot \in Shots(p, r) :
            /\ pattern' = p
            /\ region' = r
            /\ threshold' = th
            /\ calls' = <<[ret |-> Pending, failed |-> shot.failed,
                            image |-> ScreenshotImage(captures)]>>
            /\ IF shot.failed
               THEN /\ result' = RetList
                    /\ pc' = "done"
                    /\ res' = NoSurface
               ELSE IF ~NeedleFits(p, r)
               THEN /\ result' = Raise("cv2.error")
                    /\ pc' = "done"
                    /\ res' = NoSurface
               ELSE /\ result' = Pending
                    /\ pc' = "loop"
                    /\ res' = shot.res
            /\ surface' = shot.res
    /\ captures' = ScreenshotImage(captures)
    /\ op' = "match_template_multiple"
    /\ final_matches' = << >>
    /\ UNCHANGED <<timeout, now, start_time, end_time, pattern_found, guards>>

(* One iteration of the loop that records a match and suppresses around it. *)
MultipleRecord ==
    /\ op = "match_template_multiple"
    /\ pc = "loop"
    /\ KeepsMatching(res, pattern, threshold)
    /\ Len(final_matches) < MaxMatches
    /\ LET top_left == TopLeft(res)
       IN /\ res' = Suppress(res, top_left.x, top_left.y, pattern.width, pattern.height)
          /\ final_matches' = Append(final_matches, new_match_point(top_left, region))
    /\ UNCHANGED <<op, pc, pattern, region, timeout, threshold, now, start_time,
                   end_time, pattern_found, surface, calls, captures, guards, result>>

(* The iteration that breaks out of the loop and returns the list. *)
MultipleReturn ==
    /\ op = "match_template_multiple"
    /\ pc = "loop"
    /\ ~KeepsMatching(res, pattern, threshold)
    /\ result' = RetList
    /\ pc' = "done"
    /\ UNCHANGED <<op, pattern, region, timeout, threshold, now, start_time,
                   end_time, pattern_found, res, surface, final_matches, calls,
                   captures, guards>>

(* image_find up to its loop: the guard, the default timeout, the deadline. *)
CallImageFind ==
    /\ pc = "idle"
    /\ \E p \in Patterns, t \in Timeouts, r \in Regions :
        /\ pattern' = p
        /\ timeout' = t
        /\ region' = r
        /\ LET g == is_pattern_size_correct(p, r)
           IN IF g.kind = "raise"
              THEN result' = g /\ pc' = "done" /\ UNCHANGED <<start_time, end_time>>
              ELSE IF g.kind = "False"
              THEN result' = RetNone /\ pc' = "done" /\ UNCHANGED <<start_time, end_time>>
              ELSE /\ result' = Pending
                   /\ pc' = "loop"
                   /\ start_time' = now
                   /\ end_time' = now + ImageFindTimeout(t)
    /\ op' = "image_find"
    /\ guards' = 1
    /\ UNCHANGED <<threshold, now, pattern_found, res, surface, final_matches, calls,
                   captures>>

(* One iteration of image_find's loop: a search, then the clock is read;
   the search took one of the durations ticks. *)
ImageFindIteration(ticks) ==
    /\ op = "image_find"
    /\ pc = "loop"
    /\ start_time < end_time
    /\ Len(calls) < MaxPolls
    /\ \E shot \in Shots(pattern, region), d \in ticks :
        LET pos == match_template(shot, pattern, region)
        IN /\ calls' = Append(calls, [ret |-> pos, failed |-> shot.failed,
                                      image |-> ScreenshotImage(captures)])
           /\ IF pos.kind = "raise"
              THEN result' = pos /\ pc' = "done" /\ UNCHANGED <<now, start_time>>
              ELSE /\ now' = now + d
                   /\ start_time' = LoopTime(start_time, now + d)
                   /\ IF FindFound(pos)
                      THEN result' = pos /\ pc' = "done"
                      ELSE UNCHANGED <<result, pc>>
    /\ captures' = ScreenshotImage(captures)
    /\ UNCHANGED <<op, pattern, region, timeout, threshold, end_time, pattern_found,
                   res, surface, final_matches, guards>>

(* The clock may read the same value twice. *)
ImageFindPoll == ImageFindIteration(0..MaxTick)

(* Every search takes time on the clock. *)
ImageFindPollAdvancing == ImageFindIteration(1..MaxTick)

(* The loop test of image_find fails: return None. *)
ImageFindTimedOut ==
    /\ op = "image_find"
    /\ pc = "loop"
    /\ ~(start_time < end_time)
    /\ result' = RetNone
    /\ pc' = "done"
    /\ UNCHANGED <<op, pattern, region, timeout, threshold, now, start_time, end_time,
                   pattern_found, res, surface, final_matches, calls, captures, guards>>

(* image_vanish up to its loop: the guard and the deadline;
   datetime.timedelta(seconds=None) raises TypeError. *)
CallImageVanish ==
    /\ pc = "idle"
    /\ \E p \in Patterns, t \in Timeouts, r \in Regions :
        /\ pattern' = p
        /\ timeout' = t
        /\ region' = r
        /\ LET g == is_pattern_size_correct(p, r)
           IN IF g.kind = "raise"
              THEN result' = g /\ pc' = "done" /\ UNCHANGED <<start_time, end_time>>
              ELSE IF g.kind = "False"
              THEN result' = RetNone /\ pc' = "done" /\ UNCHANGED <<start_time, end_time>>
              ELSE IF t = None
              THEN /\ result' = Raise("TypeError")
                   /\ pc' = "done"
                   /\ start_time' = now
                   /\ UNCHANGED end_time
              ELSE /\ result' = Pending
                   /\ pc' = "loop"
                   /\ start_time' = now
                   /\ end_time' = now + t[1]
    /\ op' = "image_vanish"
    /\ guards' = 1
    /\ pattern_found' = TRUE
    /\ UNCHANGED <<threshold, now, res, surface, final_matches, calls, captures>>

(* One iteration of image_vanish's loop. *)
ImageVanishPoll ==
    /\ op = "image_vanish"
    /\ pc = "loop"
    /\ pattern_found /\ start_time < end_time
    /\ Len(calls) < MaxPolls
    /\ \E shot \in Shots(pattern, region), d \in 0..MaxTick :
        LET image_found == match_template(shot, pattern, region)
        IN /\ calls' = Append(calls, [ret |-> image_found, failed |-> shot.failed,
                                      image |-> ScreenshotImage(captures)])
           /\ IF image_found.kind = "raise"
              THEN /\ result' = image_found
                   /\ pc' = "done"
                   /\ UNCHANGED <<now, start_time, pattern_found>>
              ELSE /\ pattern_found' = VanishPresent(image_found)
                   /\ now' = now + d
                   /\ start_time' = LoopTime(start_time, now + d)
                   /\ UNCHANGED <<result, pc>>
    /\ captures' = ScreenshotImage(captures)
    /\ UNCHANGED <<op, pattern, region, timeout, threshold, end_time,
                   res, surface, final_matches, guards>>

(* The loop test of image_vanish fails: return None or True. *)
ImageVanishReturn ==
    /\ op = "image_vanish"
    /\ pc = "loop"
    /\ ~(pattern_found /\ start_time < end_time)
    /\ result' = VanishResult(pattern_found)
    /\ pc' = "done"
    /\ UNCHANGED <<op, pattern, region, timeout, threshold, now, start_time, end_time,
                   pattern_found, res, surface, final_matches, calls, captures, guards>>

Return ==
    /\ pc = "done"
    /\ op' = "none"
    /\ pc' = "idle"
    /\ pattern' = Pattern(1, 1, 80)
    /\ region' = None
    /\ timeout' = None
    /\ threshold' = DefaultThreshold
    /\ now' = 0
    /\ start_time' = 0
    /\ end_time' = 0
    /\ pattern_found' = TRUE
    /\ res' = NoSurface
    /\ surface' = NoSurface
    /\ final_matches' = << >>
    /\ calls' = << >>
    /\ captures' = 0
    /\ guards' = 0
    /\ result' = Pending

Next ==
    \/ CallGuard
    \/ CallMatchTemplate
    \/ CallMatchTemplateMultiple
    \/ MultipleRecord
    \/ MultipleReturn
    \/ CallImageFind
    \/ ImageFindPoll
    \/ ImageFindTimedOut
    \/ CallImageVanish
    \/ ImageVanishPoll
    \/ ImageVanishReturn
    \/ Return

Spec == Init /\ [][Next]_vars

(* image_find on a clock that advances between iterations; the interpreter
   keeps running the loop. *)
NextAdvancing ==
    \/ CallImageFind
    \/ ImageFindPollAdvancing
    \/ ImageFindTimedOut
    \/ Return

SpecAdvancing ==
    /\ Init
    /\ [][NextAdvancing]_vars
    /\ WF_vars(ImageFindPollAdvancing)
    /\ WF_vars(ImageFindTimedOut)

----------------------------------------------------------------------------
(* Vocabulary of the properties. *)

SentinelRet == RetLoc(Location(-1, -1))

Wrappers == {"image_find", "image_vanish"}

GuardPassed ==
    region # None /\ is_pattern_size_correct(pattern, region) = RetBool(TRUE)

TooLarge ==
    region # None
    /\ (pattern.width > region[1].width \/ pattern.height > region[1].height)

DeadlinePassed == ~(start_time < end_time)

CallIndices == 1..Len(calls)

(* The score the surface of a direct match_template call holds at the
   capture-local cell an absolute Location translates back to. *)
ScoreAtResult ==
    LET ox == IF region = None THEN 0 ELSE region[1].x
        oy == IF region = None THEN 0 ELSE region[1].y
    IN res[result.y - oy][result.x - ox]

SurfaceMax == minMaxLoc(res).max_val

----------------------------------------------------------------------------
(* C1: image_vanish, called with a timeout and a pattern that passes the
   guard, whose every search returned a non-sentinel Location that left the
   pattern still present, returns False (not None) once the deadline has
   passed. *)
C1_VanishTimeoutReturnsFalse ==
    (/\ op = "image_vanish"
     /\ pc = "done"
     /\ GuardPassed
     /\ timeout # None
     /\ calls # << >>
     /\ \A i \in CallIndices : calls[i].ret.kind = "Location" /\ calls[i].ret # SentinelRet
     /\ pattern_found
     /\ DeadlinePassed)
    => result = RetBool(FALSE)

(* C2: image_find returns a Location only if its last search returned that
   Location, it is not the sentinel and no earlier search returned a
   non-sentinel Location; it returns None only if the guard failed or every
   search returned the sentinel and the deadline has passed. *)
C2_ImageFindFirstSuccess ==
    (op = "image_find" /\ pc = "done" /\ result.kind # "raise")
    => /\ result.kind = "Location" =>
            /\ calls # << >>
            /\ calls[Len(calls)].ret = result
            /\ result # SentinelRet
            /\ \A i \in 1..(Len(calls) - 1) : calls[i].ret = SentinelRet
       /\ result.kind = "None" =>
            \/ ~GuardPassed
            \/ /\ \A i \in CallIndices : calls[i].ret = SentinelRet
               /\ DeadlinePassed

(* C3: image_vanish returns True exactly when one of its searches returned
   the sentinel; only its last search can have returned the sentinel, and it
   never returns True without a search. *)
C3_VanishTrueIffSentinel ==
    (op = "image_vanish" /\ pc = "done" /\ result.kind # "raise")
    => /\ (result = RetBool(TRUE)) <=> (\E i \in CallIndices : calls[i].ret = SentinelRet)
       /\ \A i \in 1..(Len(calls) - 1) : calls[i].ret # SentinelRet
       /\ result = RetBool(TRUE) => calls # << >>

(* C4: a failed capture never propagates: match_template, called directly
   or by a wrapper, returns the sentinel Location, and
   match_template_multiple returns the empty list, with or without a
   region. *)
C4_CaptureFailureMasked ==
    /\ (op \in {"match_template"} \cup Wrappers) =>
            \A i \in CallIndices : calls[i].failed => calls[i].ret = SentinelRet
    /\ (op = "match_template_multiple" /\ calls[1].failed) =>
            pc = "done" /\ result = RetList /\ final_matches = << >>

C4_Witness ==
    /\ op = "match_template"
    /\ pc = "done"
    /\ region = None
    /\ calls[1].failed
    /\ result = SentinelRet

(* C5: a wrapper never finishes on a failed capture before the deadline,
   and the failed capture never decides its result: once the last search's
   capture has failed, the wrapper ends only by deadline expiry, with the
   result of a timeout. *)
C5_FailedCaptureDoesNotDecide ==
    (op \in Wrappers /\ pc = "done" /\ calls # << >> /\ calls[Len(calls)].failed)
    => DeadlinePassed /\ result.kind \notin {"True", "Location"}

(* C6: with a region given, the guard is False exactly when the pattern is
   wider or higher than the region, and then image_find and image_vanish
   return None without a single capture. *)
C6_GuardRejectsOversize ==
    /\ (op = "is_pattern_size_correct" /\ region # None) =>
            result = RetBool(~TooLarge)
    /\ (op \in Wrappers /\ TooLarge) =>
            pc = "done" /\ result = RetNone /\ calls = << >>

C6_Witness ==
    /\ op = "image_vanish"
    /\ pc = "done"
    /\ region # None
    /\ pattern.width <= region[1].width
    /\ pattern.height > region[1].height
    /\ result = RetNone
    /\ calls = << >>

(* C7: called without a region, the guard and the two wrappers end with a
   value, never with an error. *)
C7_NoRegionNoError ==
    (op \in {"is_pattern_size_correct"} \cup Wrappers /\ pc = "done" /\ region = None)
    => result.kind # "raise"

(* C8: called without a timeout and past the guard, both wrappers poll
   towards the deadline now + the configured wait (the clock reads 0 when a
   call starts) and neither fails. *)
C8_DefaultTimeout ==
    (op \in Wrappers /\ timeout = None /\ GuardPassed)
    => result.kind # "raise" /\ end_time = AutoWaitTimeout

(* C9: with a region given, every non-sentinel Location match_template
   returns lies inside the region. *)
C9_LocationInsideRegion ==
    (op \in {"match_template"} \cup Wrappers /\ region # None)
    => \A i \in CallIndices :
        (calls[i].ret.kind = "Location" /\ calls[i].ret # SentinelRet)
        => /\ region[1].x <= calls[i].ret.x
           /\ calls[i].ret.x < region[1].x + region[1].width
           /\ region[1].y <= calls[i].ret.y
           /\ calls[i].ret.y < region[1].y + region[1].height

C9_Witness ==
    /\ op = "match_template"
    /\ pc = "done"
    /\ region # None
    /\ region[1].x = -1
    /\ result.kind = "Location"
    /\ result.x = region[1].x + region[1].width - 1
    /\ result.x > region[1].x
    /\ result.y > region[1].y

(* C10: match_template returns the sentinel exactly when the capture failed
   or the global maximum is below the similarity; any other Location is
   that of a global maximum scoring at least the similarity. *)
C10_SentinelIffBelowSimilarity ==
    (op = "match_template" /\ pc = "done" /\ result.kind = "Location")
    => /\ (result = SentinelRet) <=>
            (calls[1].failed \/ SurfaceMax < pattern.similarity)
       /\ result # SentinelRet =>
            /\ ScoreAtResult = SurfaceMax
            /\ ScoreAtResult >= pattern.similarity

----------------------------------------------------------------------------
(* Vocabulary of the properties of match_template and
   match_template_multiple. *)

OriginX == IF region = None THEN 0 ELSE region[1].x
OriginY == IF region = None THEN 0 ELSE region[1].y

Abs(n) == IF n < 0 THEN -n ELSE n

(* Cell d comes before cell c in row-major order. *)
Before(d, c) == d[2] < c[2] \/ (d[2] = c[2] /\ d[1] < c[1])

(* The score surface s has its global maximum at cell c (the first such
   cell, when several hold it). *)
GlobalMaxAt(s, c) ==
    \A d \in Cells(s) :
        /\ s[d[2]][d[1]] <= s[c[2]][c[1]]
        /\ Before(d, c) => s[d[2]][d[1]] < s[c[2]][c[1]]

(* A direct call of match_template that captured and correlated. *)
Searched ==
    op = "match_template" /\ pc = "done" /\ ~calls[1].failed /\ NeedleFits(pattern, region)

(* match_template_multiple past its capture and correlation. *)
Multiple == op = "match_template_multiple" /\ surface # NoSurface

(* The score the correlation gave at a recorded Location. *)
ScoreOf(loc) == surface[loc.y][loc.x]

InSurface(loc) ==
    /\ 0 <= loc.x /\ loc.x < SurfW(surface)
    /\ 0 <= loc.y /\ loc.y < SurfH(surface)

(* The places where a copy of the needle was pasted: the cells scoring
   strictly between the overlap threshold and the similarity. *)
Pastes == {c \in Cells(surface) :
              threshold < surface[c[2]][c[1]] /\ surface[c[2]][c[1]] < pattern.similarity}

(* Within half the pattern's width and half its height of each other. *)
Near(x1, y1, x2, y2) ==
    2 * Abs(x1 - x2) <= pattern.width /\ 2 * Abs(y1 - y2) <= pattern.height

(* k non-overlapping copies on a background at or below the threshold. *)
CopiesScene ==
    /\ Multiple
    /\ \A c \in Cells(surface) : c \notin Pastes => surface[c[2]][c[1]] <= threshold
    /\ \A c, d \in Pastes :
        c # d => (Abs(c[1] - d[1]) >= pattern.width \/ Abs(c[2] - d[2]) >= pattern.height)

MatchIndices == 1..Len(final_matches)

----------------------------------------------------------------------------
(* C11: when the surface's global maximum is at capture-local (dx, dy) and
   scores at least the similarity, match_template returns exactly
   (region.x + dx, region.y + dy), or (dx, dy) without a region, also for
   dx = 0 or dy = 0. *)
C11_TranslationRoundTrip ==
    Searched =>
        \A c \in Cells(res) :
            (GlobalMaxAt(res, c) /\ res[c[2]][c[1]] >= pattern.similarity)
            => result = RetLoc(Location(OriginX + c[1], OriginY + c[2]))

C11_Witness ==
    /\ Searched
    /\ region # None
    /\ region[1].x = 1
    /\ region[1].y = -1
    /\ SurfH(res) = 2
    /\ GlobalMaxAt(res, <<0, 1>>)
    /\ res[1][0] >= pattern.similarity
    /\ result = RetLoc(Location(1, 0))

(* C12: on k non-overlapping copies of the needle, each scoring strictly
   between the overlap threshold and the similarity, match_template_multiple
   returns exactly k locations, each within half the pattern's width and
   height of a paste of its own, and no two of them within half the
   pattern's width and height of each other. *)
C12_ExactlyKMatches ==
    CopiesScene =>
        /\ Len(final_matches) <= Cardinality(Pastes)
        /\ (pc = "done" /\ result = RetList) => Len(final_matches) = Cardinality(Pastes)
        /\ \E f \in [MatchIndices -> Pastes] :
            /\ \A i, j \in MatchIndices : i # j => f[i] # f[j]
            /\ \A i \in MatchIndices :
                Near(final_matches[i].x, final_matches[i].y, f[i][1], f[i][2])
        /\ \A i, j \in MatchIndices :
            i # j => ~Near(final_matches[i].x, final_matches[i].y,
                           final_matches[j].x, final_matches[j].y)

(* C13: match_template_multiple records a location only at a global maximum
   strictly between the overlap threshold and the similarity, returns only
   when the current maximum is outside that interval, and returns the empty
   list when the surface holds a score at or above the similarity. *)
C13_RecordsOnlyInsideInterval ==
    Multiple =>
        /\ \A i \in MatchIndices :
            /\ InSurface(final_matches[i])
            /\ threshold < ScoreOf(final_matches[i])
            /\ ScoreOf(final_matches[i]) < pattern.similarity
        /\ (pc = "done" /\ result = RetList) =>
            \/ \E c \in Cells(res) : res[c[2]][c[1]] >= pattern.similarity
            \/ \A c \in Cells(res) : res[c[2]][c[1]] <= threshold
        /\ (\E c \in Cells(surface) : surface[c[2]][c[1]] >= pattern.similarity)
            => final_matches = << >>

C13_Witness ==
    /\ Multiple
    /\ pc = "done"
    /\ result = RetList
    /\ final_matches = << >>
    /\ \E c \in Cells(surface) : surface[c[2]][c[1]] = pattern.similarity
    /\ \E c \in Cells(surface) :
        threshold < surface[c[2]][c[1]] /\ surface[c[2]][c[1]] < pattern.similarity

(* C14: the scores at which the locations of the list were discovered are
   non-increasing along the list. *)
C14_ScoresNonIncreasing ==
    Multiple =>
        \A i, j \in MatchIndices :
            (i < j /\ InSurface(final_matches[i]) /\ InSurface(final_matches[j]))
            => ScoreOf(final_matches[i]) >= ScoreOf(final_matches[j])

C14_Witness ==
    /\ Multiple
    /\ pc = "done"
    /\ result = RetList
    /\ Len(final_matches) = 2
    /\ final_matches[2].x = 0
    /\ final_matches[1].x > 0
    /\ ScoreOf(final_matches[1]) > ScoreOf(final_matches[2])

----------------------------------------------------------------------------
(* C15: on a clock that advances between iterations image_find terminates:
   its loop always reaches the return (the bound on polls never stops it),
   it returns None when no search found the pattern, and with timeout 0 it
   returns None without a search. *)
C15_ImageFindTerminates ==
    /\ []((op = "image_find" /\ pc = "loop" /\ start_time < end_time)
            => Len(calls) < MaxPolls)
    /\ (op = "image_find" /\ pc = "loop") ~> (op = "image_find" /\ pc = "done")
    /\ []((op = "image_find" /\ pc = "done" /\ GuardPassed
            /\ \A i \in CallIndices : ~FindFound(calls[i].ret))
            => result = RetNone)
    /\ []((op = "image_find" /\ pc = "done" /\ GuardPassed /\ timeout = Some(0))
            => result = RetNone /\ calls = << >>)

C15_Witness ==
    /\ op = "image_find"
    /\ pc = "done"
    /\ GuardPassed
    /\ Len(calls) = 2
    /\ \A i \in CallIndices : ~FindFound(calls[i].ret)
    /\ result = RetNone

(* C16: the suppression overwrites only cells inside the window centred on
   a found location: every cell whose score changed lies within half the
   pattern's width and height of a recorded location. *)
C16_SuppressionInsideWindow ==
    Multiple =>
        \A c \in Cells(surface) :
            res[c[2]][c[1]] # surface[c[2]][c[1]]
            => \E i \in MatchIndices :
                Near(c[1], c[2], final_matches[i].x, final_matches[i].y)

(* C17: in image_find and image_vanish the guard is evaluated once, the
   deadline is the one computed at the call (the clock reads 0 then), and
   every search works on a capture of its own: as many captures as
   searches, the i-th search on the i-th capture. *)
C17_GuardOnceFreshCaptures ==
    op \in Wrappers =>
        /\ guards = 1
        /\ captures = Len(calls)
        /\ \A i \in CallIndices : calls[i].image = i
        /\ (pc \in {"loop", "done"} /\ GuardPassed /\ result.kind # "raise")
            => end_time = IF timeout = None THEN AutoWaitTimeout ELSE timeout[1]

C17_Witness ==
    /\ op = "image_vanish"
    /\ pc = "done"
    /\ Len(calls) = 2
    /\ captures = 2
    /\ calls[2].image = 2
    /\ start_time > 0
    /\ end_time = 2

(* C18: every Location match_template returns is the sentinel or has both
   coordinates non-negative, so the found test of image_find and the
   still-present test of image_vanish agree on it. *)
C18_SentinelOrNonNegative ==
    (op \in {"match_template"} \cup Wrappers) =>
        \A i \in CallIndices :
            calls[i].ret.kind = "Location" =>
                /\ \/ calls[i].ret = SentinelRet
                   \/ (calls[i].ret.x >= 0 /\ calls[i].ret.y >= 0)
                /\ FindFound(calls[i].ret) <=> VanishPresent(calls[i].ret)

(* C19: every recording iteration of match_template_multiple lowers the
   score at the found location below the threshold, so no location is
   recorded twice and there are at most as many recordings as cells. *)
C19_FoundCellSuppressed ==
    Multiple =>
        /\ \A i \in MatchIndices :
            InSurface(final_matches[i])
            => res[final_matches[i].y][final_matches[i].x] < threshold
        /\ \A i, j \in MatchIndices : i # j => final_matches[i] # final_matches[j]
        /\ Len(final_matches) <= Cardinality(Cells(surface))

(* The surface that peaks, at the similarity, at one location only. *)
PeakAt(loc) ==
    [y \in DOMAIN surface |->
        [x \in DOMAIN surface[y] |->
            IF x = loc.x /\ y = loc.y THEN pattern.similarity ELSE Suppressed]]

(* C20: match_template_multiple reports capture-local locations: the first
   is the cell of the surface's global maximum, and each differs from the
   Location match_template reports for a match at the same cell by exactly
   the region's origin. *)
C20_CaptureLocalLocations ==
    (Multiple /\ region # None) =>
        /\ final_matches # << >> =>
            /\ InSurface(final_matches[1])
            /\ GlobalMaxAt(surface, <<final_matches[1].x, final_matches[1].y>>)
        /\ \A i \in MatchIndices :
            /\ InSurface(final_matches[i])
            /\ LET absolute == match_template([failed |-> FALSE,
                                                res |-> PeakAt(final_matches[i])],
                                               pattern, region)
               IN /\ absolute.x - final_matches[i].x = region[1].x
                  /\ absolute.y - final_matches[i].y = region[1].y

C20_Witness ==
    /\ Multiple
    /\ pc = "done"
    /\ result = RetList
    /\ region # None
    /\ region[1].x = 1
    /\ region[1].y = -1
    /\ final_matches = <<Location(1, 0)>>

====
